---------------------------- MODULE Spec2Model ----------------------------
(***************************************************************************)
(* Model of threshold.py: the decoding of DAQ log lines into threshold     *)
(* records (TMCCount, DAQLine, Event, event_finder, process_events).       *)
(*                                                                         *)
(* Representation.                                                         *)
(*  - A hex token is the sequence of its hex digits (each 0..15), most     *)
(*    significant first; int(token, 16) is computed from the digits.       *)
(*  - Python integers are unbounded.  The 32-bit counters and the rollover *)
(*    constant 0xFFFFFFFF are carried as "wide" integers [hi, lo] of value *)
(*    hi * 65536 + lo with 0 <= lo < 65536 and hi signed.                  *)
(*  - Python floats are modelled by exact arithmetic.  A time is           *)
(*    [s, u]: s whole seconds (signed) plus u units of 1.25 ns,            *)
(*    0 <= u < UnitsPerSecond.  A fractional Julian day is the same record *)
(*    read against DaySeconds (one day = DaySeconds seconds).              *)
(*  - get2attr (module functions) is read as its call sites require:       *)
(*    get2attr(o, a, b, *args) is getattr(getattr(o, a), b), called with   *)
(*    args when args are given.                                            *)
(*  - An exception that leaves a function is the result Raised.            *)
(***************************************************************************)
EXTENDS Integers, Sequences, FiniteSets, TLC

\* Longest input (number of raw lines) handed to event_finder.
MaxLines == 3

\* Executions of the loop body that are followed: a scan of n lines that
\* ends takes at most 2n - 1.
MaxIterations == 2 * MaxLines

VARIABLES
    data,          \* event_finder: the list of raw lines
    index,         \* event_finder: place in data (0-based, as in the code)
    flag,          \* event_finder: writing an event
    single_event,  \* event_finder: lines of the event being collected
    event_text,    \* event_finder: output records so far
    pc,            \* "scan" | "done" | "raised"  (for a single call: "call" | "ret")
    returned,      \* event_finder's return value (<<>> until it returns)
    iterations,    \* history: executions of the body of event_finder's loop
    blocks,        \* history: the blocks handed to process_events, in call order
    arg,           \* argument of a single call of a pure function
    res            \* its result

vars == <<data, index, flag, single_event, event_text, pc, returned, iterations, blocks, arg, res>>

NoValue == [none |-> TRUE]

----------------------------------------------------------------------------
\* Integer helpers

\* 800,000,000 units of 1.25 ns in one second (1e9 / 1.25)
UnitsPerSecond == 800000000

\* seconds in a day
DaySeconds == 86400

\* nominal clock frequency
NominalFreq == 25000000

\* four hex digits to a half of a wide integer
WideBase == 16 * 16 * 16 * 16

\* ipart / int(): truncation toward zero of n / d, d > 0
IPart(n, d) == IF n >= 0 THEN n \div d ELSE -((-n) \div d)

\* int(token, 16) for a token of at most 7 hex digits
RECURSIVE HexInt(_)
HexInt(digits) ==
    IF digits = <<>> THEN 0
    ELSE 16 * HexInt(SubSeq(digits, 1, Len(digits) - 1)) + digits[Len(digits)]

\* int(token, 16) for an 8-digit token, as a wide integer
HexWide(digits) ==
    [hi |-> HexInt(SubSeq(digits, 1, 4)), lo |-> HexInt(SubSeq(digits, 5, 8))]

WNorm(hi, lo) == [hi |-> hi + (lo \div WideBase), lo |-> lo % WideBase]
WAdd(a, b) == WNorm(a.hi + b.hi, a.lo + b.lo)
WSub(a, b) == WNorm(a.hi - b.hi, a.lo - b.lo)
WOfInt(n) == WNorm(0, n)
WNeg(a) == a.hi < 0
WZero(a) == a.hi = 0 /\ a.lo = 0
WLess(a, b) == a.hi < b.hi \/ (a.hi = b.hi /\ a.lo < b.lo)
\* the Int of a wide integer that fits (|value| < 2^31)
WInt(a) == a.hi * WideBase + a.lo

\* int('FFFFFFFF', 16)
Rollover == HexWide(<<15, 15, 15, 15, 15, 15, 15, 15>>)

----------------------------------------------------------------------------
\* format(n, '08b'): the 8 binary digits of n, most significant first
\* (more than 8 when n > 255, as format does)
RECURSIVE Bin(_)
Bin(n) == IF n < 2 THEN <<n>> ELSE Append(Bin(n \div 2), n % 2)

RECURSIVE ZeroPad(_, _)
ZeroPad(bits, width) ==
    IF Len(bits) >= width THEN bits ELSE ZeroPad(<<0>> \o bits, width)

Format08b(n) == ZeroPad(Bin(n), 8)

\* int(bits, 2)
RECURSIVE BinInt(_)
BinInt(bits) ==
    IF bits = <<>> THEN 0
    ELSE 2 * BinInt(SubSeq(bits, 1, Len(bits) - 1)) + bits[Len(bits)]

\* TMCCount.__init__ with a shortened count slice (bin_word[4:])
TMCCountShortSlice(word) ==
    LET bin_word == Format08b(HexInt(word))
    IN  [word       |-> word,
         edge_count |-> SubSeq(bin_word, 5, Len(bin_word)),
         edge_valid |-> (bin_word[3] = 1),
         bit_7      |-> bin_word[1]]

\* TMCCount.__init__
TMCCount(word) ==
    LET bin_word == Format08b(HexInt(word))
    IN  [word       |-> word,
         edge_count |-> SubSeq(bin_word, 4, Len(bin_word)),   \* bin_word[3:]
         edge_valid |-> (bin_word[3] = 1),                    \* bin_word[2] == '1'
         bit_7      |-> bin_word[1]]                          \* bin_word[0]


----------------------------------------------------------------------------
\* A raw line is the record of its 16 whitespace-separated fields:
\*   clock (8 hex digits), edges (8 tokens of 2 hex digits), pps (8 hex
\*   digits), utc_time (digits of hhmmss.ddd), utc_date (digits of ddmmyy),
\*   gps ("A" | "V"), n_gps (decimal token), status (1 hex digit),
\*   time_delay (the signed integer the token spells).

Raised == [raised |-> TRUE]

\* int(token) of a token of decimal digits
RECURSIVE DecInt(_)
DecInt(digits) ==
    IF digits = <<>> THEN 0
    ELSE 10 * DecInt(SubSeq(digits, 1, Len(digits) - 1)) + digits[Len(digits)]

\* int(token) raises ValueError unless the token is decimal
IsDecimal(token) == token # <<>> /\ \A k \in 1..Len(token) : token[k] \in 0..9

\* DAQStatus.__init__
DAQStatus(word) ==
    LET bin_word == ZeroPad(Bin(HexInt(word)), 4)
        bit_0 == bin_word[4]
        bit_1 == bin_word[3]
        bit_2 == bin_word[2]
        bit_3 == bin_word[1]
    IN  [word |-> word, bit_0 |-> bit_0, bit_1 |-> bit_1, bit_2 |-> bit_2,
         bit_3 |-> bit_3, is_ok |-> ~(bit_0 + bit_1 + bit_2 + bit_3 > 0)]

\* DAQLine.__init__: the decoded line, or Raised (int(words[13]) fails)
DAQLine(words) ==
    IF ~IsDecimal(words.n_gps) THEN Raised
    ELSE [raised     |-> FALSE,
          edges      |-> [i \in 1..8 |-> TMCCount(words.edges[i])],
          clock_count|-> words.clock,
          pps        |-> words.pps,
          utc_time   |-> words.utc_time,
          utc_date   |-> words.utc_date,
          gps_valid  |-> (words.gps = "A"),
          n_gps      |-> DecInt(words.n_gps),
          daq_status |-> DAQStatus(words.status),
          time_delay |-> words.time_delay]

\* round(n / d), d > 0: halves away from zero
Round(n, d) ==
    IF n >= 0 THEN (2 * n + d) \div (2 * d) ELSE -((2 * (-n) + d) \div (2 * d))

\* Event.__init__, lines 107-109: seconds since midnight of the first line,
\* to the nearest second (utc_time is hhmmss.ddd, time_delay in ms)
EventTime(utc_time, time_delay) ==
    LET hh == DecInt(SubSeq(utc_time, 1, 2))
        mm == DecInt(SubSeq(utc_time, 3, 4))
        ms == DecInt(SubSeq(utc_time, 5, 9))
    IN  Round((hh * 3600 + mm * 60) * 1000 + ms + time_delay, 1000)

\* ClockFrequency without the fallback for a zero difference
ClockFrequencyNoFallback(first_pps, last_pps) ==
    LET freq == WSub(HexWide(last_pps), HexWide(first_pps))
    IN  IF WNeg(freq) THEN WAdd(freq, Rollover) ELSE freq

\* Event.__init__, lines 112-116: the clock frequency of an event
ClockFrequency(first_pps, last_pps) ==
    LET freq  == WSub(HexWide(last_pps), HexWide(first_pps))
        freq2 == IF WNeg(freq) THEN WAdd(freq, Rollover) ELSE freq
    IN  IF WZero(freq2) THEN WOfInt(NominalFreq) ELSE freq2

\* a time of n units of 1.25 ns added to whole seconds s
TimeNorm(s, n) == [s |-> s + (n \div UnitsPerSecond), u |-> n % UnitsPerSecond]
TimeAdd(a, b) == TimeNorm(a.s + b.s, a.u + b.u)
TimeSub(a, b) == TimeNorm(a.s - b.s, a.u - b.u)

\* Event.__init__, line 135: t_clk = 1e9*(clock_count - pps)/freq, exact when
\* freq divides UnitsPerSecond (every frequency the lines of LineSet produce)
TClk(clock_count, pps, freq) ==
    LET d == WInt(WSub(HexWide(clock_count), HexWide(pps)))
        f == WInt(freq)
    IN  [s |-> d \div f, u |-> (d % f) * (UnitsPerSecond \div f)]

\* Event.__init__, lines 134-140: the eight edge lists after all lines are
\* loaded (order re1, fe1, re2, fe2, re3, fe3, re4, fe4), before trimming
RECURSIVE LoadEdges(_, _, _)
LoadEdges(event_daq_lines, freq, n) ==
    IF n = 0 THEN [i \in 1..8 |-> <<>>]
    ELSE LET counts == LoadEdges(event_daq_lines, freq, n - 1)
             daq    == event_daq_lines[n]
             t_clk  == TClk(daq.clock_count, daq.pps, freq)
         IN  [i \in 1..8 |->
                 IF daq.edges[i].edge_valid
                 THEN Append(counts[i],
                             TimeAdd([s |-> 0, u |-> BinInt(daq.edges[i].edge_count)], t_clk))
                 ELSE counts[i]]

\* list.pop(-1)
PopLast(list) == SubSeq(list, 1, Len(list) - 1)

\* the orphan loop popping the first entry instead (pop(0))
TrimOrphansPopFirst(counts) ==
    [i \in 1..8 |->
        LET re == IF i % 2 = 1 THEN i ELSE i - 1
            fe == re + 1
        IN  IF Len(counts[re]) = Len(counts[fe]) THEN counts[i]
            ELSE IF Len(counts[re]) > Len(counts[fe])
                 THEN (IF i = re THEN Tail(counts[i]) ELSE counts[i])
                 ELSE (IF i = fe THEN Tail(counts[i]) ELSE counts[i])]

\* Event.__init__, lines 143-151: toss out 'orphaned' triggers
TrimOrphans(counts) ==
    [i \in 1..8 |->
        LET re == IF i % 2 = 1 THEN i ELSE i - 1
            fe == re + 1
        IN  IF Len(counts[re]) = Len(counts[fe]) THEN counts[i]
            ELSE IF Len(counts[re]) > Len(counts[fe])
                 THEN (IF i = re THEN PopLast(counts[i]) ELSE counts[i])
                 ELSE (IF i = fe THEN PopLast(counts[i]) ELSE counts[i])]

\* Event.__init__, lines 100-104: the decoded lines of a block
DecodeLines(event_lines) == [n \in 1..Len(event_lines) |-> DAQLine(event_lines[n])]

\* a block all of whose lines decode
Decodes(event_lines) ==
    \A n \in 1..Len(event_lines) : ~DAQLine(event_lines[n]).raised

\* the edge lists of a decodable block before the orphan loop
PreTrim(event_lines) ==
    LET daqs == DecodeLines(event_lines)
    IN  LoadEdges(daqs, ClockFrequency(daqs[1].pps, daqs[Len(daqs)].pps), Len(daqs))

\* Event.__init__: the Event of a block, or Raised when a line does not decode
Event(event_lines) ==
    IF ~Decodes(event_lines) THEN Raised
    ELSE LET daqs == DecodeLines(event_lines)
         IN  [raised  |-> FALSE,
              t_abs   |-> EventTime(daqs[1].utc_time, daqs[1].time_delay),
              utc_day |-> daqs[1].utc_date,
              counts  |-> TrimOrphans(PreTrim(event_lines))]

----------------------------------------------------------------------------
\* gcal2jd (jdcal): the Modified Julian Date of a Gregorian date at 0h; the
\* function returns (2400000.5, mjd)
Gcal2jd(year, month, day) ==
    LET a == IPart(month - 14, 12)
        x == IPart(year + 4900 + a, 100)
    IN  IPart(1461 * (year + 4800 + a), 4) + IPart(367 * (month - 2 - 12 * a), 12)
        - IPart(3 * x, 4) + day - 2432076

\* process_events, lines 190-195: julian_start split at the point into the
\* day number and the fraction of a day (in seconds); the .5 of 2400000.5 is
\* half a day
JulianStart(event) ==
    LET day    == DecInt(SubSeq(event.utc_day, 1, 2))
        month  == DecInt(SubSeq(event.utc_day, 3, 4))
        year   == DecInt(<<2, 0>> \o SubSeq(event.utc_day, 5, 6))
        secs   == (DaySeconds \div 2) + event.t_abs
    IN  [jul_day  |-> 2400000 + Gcal2jd(year, month, day) + (secs \div DaySeconds),
         jul_frac |-> secs % DaySeconds]

\* t > 1 for a fraction of a day t
GreaterOne(t) == t.s > DaySeconds \/ (t.s = DaySeconds /\ t.u > 0)

\* t -= 1
MinusOne(t) == [s |-> t.s - DaySeconds, u |-> t.u]

\* Python's (a and b): a when a is zero, else b
AndValue(a, b) == IF a.s = 0 /\ a.u = 0 THEN a ELSE b

\* out_line = '' before any pair of a channel
EmptyLine == [empty |-> TRUE]

\* process_events, lines 202-221: the pairs j, j+1, ... of one channel; the
\* day number carries over from pair to pair; the result is the last
\* out_line built, or Raised (t_fall[j] out of range, line 207)
RECURSIVE ChannelLine(_, _, _, _, _, _, _, _)
ChannelLine(sat_num, chan, rise, fall, jul_frac, j, jul_day, out_line) ==
    IF j > Len(rise) THEN [raised |-> FALSE, out_line |-> out_line]
    ELSE IF j > Len(fall) THEN Raised
    ELSE LET frac          == [s |-> jul_frac, u |-> 0]
             t_over_thresh == TimeSub(fall[j], rise[j])
             t_rise        == TimeAdd(rise[j], frac)
             t_fall        == TimeAdd(fall[j], frac)
             day           == IF GreaterOne(t_rise) \/ GreaterOne(t_fall)
                                 \/ GreaterOne(AndValue(t_rise, t_fall))
                              THEN jul_day + 1 ELSE jul_day
             line          == [id            |-> sat_num,
                               chan          |-> chan,
                               jul_day       |-> day,
                               t_rise        |-> IF GreaterOne(t_rise) THEN MinusOne(t_rise) ELSE t_rise,
                               t_fall        |-> IF GreaterOne(t_fall) THEN MinusOne(t_fall) ELSE t_fall,
                               t_over_thresh |-> t_over_thresh]
         IN  ChannelLine(sat_num, chan, rise, fall, jul_frac, j + 1, day, line)

\* process_events: the list it returns, or Raised
ProcessEvents(event_block, sat_num) ==
    LET event == Event(event_block)
    IN  IF event.raised THEN Raised
        ELSE LET start == JulianStart(event)
                 lines == [c \in 1..4 |->
                             ChannelLine(sat_num, c, event.counts[2 * c - 1], event.counts[2 * c],
                                         start.jul_frac, 1, start.jul_day, EmptyLine)]
             IN  IF \E c \in 1..4 : lines[c].raised THEN Raised
                 ELSE [raised |-> FALSE, print_out |-> [c \in 1..4 |-> lines[c].out_line]]

----------------------------------------------------------------------------
\* The lines of the model's inputs.  Every line that starts an event carries
\* the same pps; a continuing line carries that pps, that pps + 1 or that
\* pps + 25,000,000, so that every block has a frequency of 25,000,000 or 1.

RawLine(clock, edges, pps, utc_time, n_gps, time_delay) ==
    [clock |-> clock, edges |-> edges, pps |-> pps, utc_time |-> utc_time,
     utc_date |-> <<1, 8, 0, 5, 1, 6>>, gps |-> "A", n_gps |-> n_gps,
     status |-> <<0>>, time_delay |-> time_delay]

\* the edge token 00
Z == <<0, 0>>
Pps0 == <<6, 7, 0, 3, 7, 12, 11, 8>>      \* 67037CB8

\* 687C4047 80 00 2B 00 00 00 00 00 67037CB8 000322.027 180516 A 03 0 +0053
LineS1 == RawLine(<<6, 8, 7, 12, 4, 0, 4, 7>>, <<(<<8, 0>>), Z, (<<2, 11>>), Z, Z, Z, Z, Z>>,
                  Pps0, <<0, 0, 0, 3, 2, 2, 0, 2, 7>>, <<0, 3>>, 53)
\* 69037CB8 A5 2C 00 00 00 00 00 00 67037CB8 115959.000 180516 A 03 0 +0000
LineS2 == RawLine(<<6, 9, 0, 3, 7, 12, 11, 8>>, <<(<<10, 5>>), (<<2, 12>>), Z, Z, Z, Z, Z, Z>>,
                  Pps0, <<1, 1, 5, 9, 5, 9, 0, 0, 0>>, <<0, 3>>, 0)
\* 67037CB7 A0 2F 00 00 00 00 00 00 67037CB8 120000.000 180516 A 03 0 +0000
LineS3 == RawLine(<<6, 7, 0, 3, 7, 12, 11, 7>>, <<(<<10, 0>>), (<<2, 15>>), Z, Z, Z, Z, Z, Z>>,
                  Pps0, <<1, 2, 0, 0, 0, 0, 0, 0, 0>>, <<0, 3>>, 0)
\* 687C4048 00 00 00 28 00 00 00 00 67037CB8 000322.027 180516 A 03 0 +0053
LineK1 == RawLine(<<6, 8, 7, 12, 4, 0, 4, 8>>, <<Z, Z, Z, (<<2, 8>>), Z, Z, Z, Z>>,
                  Pps0, <<0, 0, 0, 3, 2, 2, 0, 2, 7>>, <<0, 3>>, 53)
\* 687C4048 00 00 2B 00 00 00 00 00 67037CB8 000322.027 180516 A 03 0 +0053
LineK2 == RawLine(<<6, 8, 7, 12, 4, 0, 4, 8>>, <<Z, Z, (<<2, 11>>), Z, Z, Z, Z, Z>>,
                  Pps0, <<0, 0, 0, 3, 2, 2, 0, 2, 7>>, <<0, 3>>, 53)
\* 69037CB9 25 2C 00 00 00 00 00 00 67037CB8 115959.000 180516 A 03 0 +0000
LineK3 == RawLine(<<6, 9, 0, 3, 7, 12, 11, 9>>, <<(<<2, 5>>), (<<2, 12>>), Z, Z, Z, Z, Z, Z>>,
                  Pps0, <<1, 1, 5, 9, 5, 9, 0, 0, 0>>, <<0, 3>>, 0)
\* 6880F508 00 2C 00 00 3A 36 00 00 6880F4F8 000323.027 180516 A 03 0 +0053
LineK4 == RawLine(<<6, 8, 8, 0, 15, 5, 0, 8>>, <<Z, (<<2, 12>>), Z, Z, (<<3, 10>>), (<<3, 6>>), Z, Z>>,
                  <<6, 8, 8, 0, 15, 4, 15, 8>>, <<0, 0, 0, 3, 2, 3, 0, 2, 7>>, <<0, 3>>, 53)
\* 6704CE39 00 00 00 00 00 00 20 20 67037CB9 000322.027 180516 A 03 0 +0053
LineK5 == RawLine(<<6, 7, 0, 4, 12, 14, 3, 9>>, <<Z, Z, Z, Z, Z, Z, (<<2, 0>>), (<<2, 0>>)>>,
                  <<6, 7, 0, 3, 7, 12, 11, 9>>, <<0, 0, 0, 3, 2, 2, 0, 2, 7>>, <<0, 3>>, 53)
\* 687C4048 00 00 00 28 00 00 00 00 67037CB8 000322.027 180516 A xx 0 +0053
LineB1 == RawLine(<<6, 8, 7, 12, 4, 0, 4, 8>>, <<Z, Z, Z, (<<2, 8>>), Z, Z, Z, Z>>,
                  Pps0, <<0, 0, 0, 3, 2, 2, 0, 2, 7>>, <<33, 33>>, 53)

LineSet == {LineS1, LineS2, LineS3, LineK1, LineK2, LineK3, LineK4, LineK5, LineB1}

SatNum == "6148"

----------------------------------------------------------------------------
\* event_finder

\* lines 165-166: check_bin[0] of the line at index; data[index][9:11] is
\* the first edge token of a line whose clock field has 8 characters
CheckBit(line) == Format08b(HexInt(line.edges[1]))[1]

Init ==
    /\ data \in UNION {[1..n -> LineSet] : n \in 0..MaxLines}
    /\ index = 0
    /\ flag = FALSE
    /\ single_event = <<>>
    /\ event_text = <<>>
    /\ pc = "scan"
    /\ returned = <<>>
    /\ iterations = 0
    /\ blocks = <<>>
    /\ arg = NoValue
    /\ res = NoValue

\* lines 168-171: event found, begin writing
BeginEvent ==
    /\ pc = "scan"
    /\ index < Len(data)
    /\ CheckBit(data[index + 1]) = 1 /\ flag = FALSE
    /\ single_event' = Append(single_event, data[index + 1])
    /\ index' = index + 1
    /\ flag' = TRUE
    /\ iterations' = iterations + 1
    /\ UNCHANGED <<data, event_text, pc, returned, blocks, arg, res>>

\* lines 172-174: no new event, continue writing
ContinueEvent ==
    /\ pc = "scan"
    /\ index < Len(data)
    /\ CheckBit(data[index + 1]) = 0 /\ flag = TRUE
    /\ single_event' = Append(single_event, data[index + 1])
    /\ index' = index + 1
    /\ iterations' = iterations + 1
    /\ UNCHANGED <<data, flag, event_text, pc, returned, blocks, arg, res>>

\* CloseEvent stepping over the line that starts the next event
CloseEventSkipLine ==
    /\ pc = "scan"
    /\ index < Len(data)
    /\ CheckBit(data[index + 1]) = 1 /\ flag = TRUE
    /\ blocks' = Append(blocks, single_event)
    /\ iterations' = iterations + 1
    /\ LET out == ProcessEvents(single_event, SatNum)
       IN  IF out.raised
           THEN /\ pc' = "raised"
                /\ UNCHANGED <<event_text, single_event, flag, index>>
           ELSE /\ event_text' = event_text \o out.print_out
                /\ single_event' = <<>>
                /\ flag' = FALSE
                /\ index' = index + 1
                /\ UNCHANGED pc
    /\ UNCHANGED <<data, returned, arg, res>>

\* lines 175-178: new event detected, stop writing this one; an exception of
\* process_events leaves event_finder with nothing returned
CloseEvent ==
    /\ pc = "scan"
    /\ index < Len(data)
    /\ CheckBit(data[index + 1]) = 1 /\ flag = TRUE
    /\ blocks' = Append(blocks, single_event)
    /\ iterations' = iterations + 1
    /\ LET out == ProcessEvents(single_event, SatNum)
       IN  IF out.raised
           THEN /\ pc' = "raised"
                /\ UNCHANGED <<event_text, single_event, flag, index>>
           ELSE /\ event_text' = event_text \o out.print_out
                /\ single_event' = <<>>
                /\ flag' = FALSE
                /\ UNCHANGED index
                /\ UNCHANGED pc
    /\ UNCHANGED <<data, returned, arg, res>>

\* lines 164-179: no branch of the loop body applies (an event has not
\* started and the line does not start one); the iteration changes nothing
\* and the loop goes on
NoBranch ==
    /\ pc = "scan"
    /\ index < Len(data)
    /\ CheckBit(data[index + 1]) = 0 /\ flag = FALSE
    /\ iterations < MaxIterations
    /\ iterations' = iterations + 1
    /\ UNCHANGED <<data, index, flag, single_event, event_text, pc, returned, blocks, arg, res>>

\* lines 180-183, an event is open: process it and return
ReturnLastEvent ==
    /\ pc = "scan"
    /\ ~(index < Len(data))
    /\ single_event # <<>>
    /\ blocks' = Append(blocks, single_event)
    /\ LET out == ProcessEvents(single_event, SatNum)
       IN  IF out.raised
           THEN /\ pc' = "raised"
                /\ UNCHANGED <<event_text, returned>>
           ELSE /\ event_text' = event_text \o out.print_out
                /\ returned' = event_text \o out.print_out
                /\ pc' = "done"
    /\ UNCHANGED <<data, index, flag, single_event, iterations, arg, res>>

\* lines 180-183, no event is open: return
ReturnNoEvent ==
    /\ pc = "scan"
    /\ ~(index < Len(data))
    /\ single_event = <<>>
    /\ pc' = "done"
    /\ returned' = event_text
    /\ UNCHANGED <<data, index, flag, single_event, event_text, iterations, blocks, arg, res>>

Next ==
    \/ BeginEvent
    \/ ContinueEvent
    \/ CloseEvent
    \/ NoBranch
    \/ ReturnLastEvent
    \/ ReturnNoEvent

Spec == Init /\ [][Next]_vars

----------------------------------------------------------------------------
\* Single calls of the pure functions, on arguments drawn from bounded sets

NoScan ==
    /\ data = <<>>
    /\ index = 0
    /\ flag = FALSE
    /\ single_event = <<>>
    /\ event_text = <<>>
    /\ returned = <<>>
    /\ iterations = 0
    /\ blocks = <<>>

\* every token of two hex digits, 00..FF
ByteTokens == {<<h, l>> : h \in 0..15, l \in 0..15}

DecodeInit ==
    /\ NoScan
    /\ pc = "call"
    /\ arg \in ByteTokens
    /\ res = NoValue

\* TMCCount(word)
Decode ==
    /\ pc = "call"
    /\ res' = TMCCount(arg)
    /\ pc' = "ret"
    /\ UNCHANGED <<data, index, flag, single_event, event_text, returned, iterations, blocks, arg>>

DecodeSpec == DecodeInit /\ [][Decode]_vars

\* 32-bit pps tokens: the halves 0000, 6703, 7FFF, 8000, FFFF over the
\* halves 0000, 0001, 7CB8, FFFE, FFFF
PpsHigh == {<<0, 0, 0, 0>>, <<6, 7, 0, 3>>, <<7, 15, 15, 15>>, <<8, 0, 0, 0>>, <<15, 15, 15, 15>>}
PpsLow == {<<0, 0, 0, 0>>, <<0, 0, 0, 1>>, <<7, 12, 11, 8>>, <<15, 15, 15, 14>>, <<15, 15, 15, 15>>}
PpsTokens == {h \o l : h \in PpsHigh, l \in PpsLow}

FreqInit ==
    /\ NoScan
    /\ pc = "call"
    /\ arg \in [first : PpsTokens, last : PpsTokens]
    /\ res = NoValue

\* the frequency of an event whose first line carries arg.first and whose
\* last line carries arg.last
EstimateFrequency ==
    /\ pc = "call"
    /\ res' = ClockFrequency(arg.first, arg.last)
    /\ pc' = "ret"
    /\ UNCHANGED <<data, index, flag, single_event, event_text, returned, iterations, blocks, arg>>

FreqSpec == FreqInit /\ [][EstimateFrequency]_vars

----------------------------------------------------------------------------
\* Properties

Min(a, b) == IF a < b THEN a ELSE b

\* the result of process_events on the i-th block handed to it
OutOf(i) == ProcessEvents(blocks[i], SatNum)

\* the number of rise/fall pairs of channel c of an Event
PairsOf(event, c) == Min(Len(event.counts[2 * c - 1]), Len(event.counts[2 * c]))

\* the channels of the records of a list, in order
ChannelsOf(print_out) == [k \in 1..Len(print_out) |->
                            IF print_out[k] = EmptyLine THEN 0 ELSE print_out[k].chan]

\* channel c repeated n times
RECURSIVE Repeat(_, _)
Repeat(c, n) == IF n = 0 THEN <<>> ELSE <<c>> \o Repeat(c, n - 1)

\* C1: process_events returns exactly one record per rise/fall pair: as many
\* entries as the channels 1..4 have pairs together, in channel order, k
\* entries for a channel of k pairs and none for a channel without a pair.
C1_OneRecordPerPair ==
    \A i \in 1..Len(blocks) :
        ~OutOf(i).raised =>
            LET event == Event(blocks[i])
            IN  ChannelsOf(OutOf(i).print_out) =
                    Repeat(1, PairsOf(event, 1)) \o Repeat(2, PairsOf(event, 2))
                    \o Repeat(3, PairsOf(event, 3)) \o Repeat(4, PairsOf(event, 4))

\* C2: event_finder terminates on every finite list of lines: an execution
\* of the loop body that examines a line without the start bit while no
\* event is open discards the line, that is, moves on to the next line.
C2_IdleLineIsDiscarded ==
    [][(/\ pc = "scan"
        /\ index < Len(data)
        /\ flag = FALSE
        /\ CheckBit(data[index + 1]) = 0) => index' = index + 1]_vars

\* C3: after an Event is constructed, every channel's rise list and fall list
\* have the same length.
C3_RiseFallSameLength ==
    \A i \in 1..Len(blocks) :
        Decodes(blocks[i]) =>
            \A c \in 1..4 : Len(Event(blocks[i]).counts[2 * c - 1])
                            = Len(Event(blocks[i]).counts[2 * c])

\* the records (non-empty entries) of a list
RecordsOf(print_out) == {print_out[k] : k \in 1..Len(print_out)} \ {EmptyLine}

\* C4: a malformed line aborts only its own block: when the only blocks that
\* fail are blocks with a malformed line, every record of every block that
\* was processed without failure is in event_finder's result.
C4_MalformedLineIsLocal ==
    (/\ pc \in {"done", "raised"}
     /\ \A j \in 1..Len(blocks) : OutOf(j).raised => ~Decodes(blocks[j]))
    => \A i \in 1..Len(blocks) :
           ~OutOf(i).raised => RecordsOf(OutOf(i).print_out) \subseteq RecordsOf(returned)

RECURSIVE Flatten(_)
Flatten(lists) == IF lists = <<>> THEN <<>> ELSE Head(lists) \o Flatten(Tail(lists))

\* the lines of a list after its leading run of lines without the start bit
RECURSIVE DropLeading(_)
DropLeading(lines) ==
    IF lines # <<>> /\ CheckBit(Head(lines)) = 0 THEN DropLeading(Tail(lines)) ELSE lines

\* C5: when the scan completes, the blocks handed to process_events,
\* concatenated in order, are the input without its leading run of lines
\* that lack the start bit; every block is non-empty, its first line has the
\* start bit and none of its other lines has.
C5_BlocksPartitionInput ==
    pc = "done" =>
        /\ Flatten(blocks) = DropLeading(data)
        /\ \A i \in 1..Len(blocks) :
              /\ blocks[i] # <<>>
              /\ CheckBit(blocks[i][1]) = 1
              /\ \A k \in 2..Len(blocks[i]) : CheckBit(blocks[i][k]) = 0

\* a completed scan of three lines or more that handed over two blocks or
\* more, one of them of several lines
C5_Witness ==
    /\ pc = "done"
    /\ Len(blocks) >= 2
    /\ \E i \in 1..Len(blocks) : Len(blocks[i]) >= 2

\* C6: the day number of a record is the event's base day plus 1 when the
\* rise or the fall fraction of its own pair passed 1.0, and the base day
\* otherwise, whatever the other pairs of the channel did.  (The record of a
\* channel in the returned list is that of the channel's last pair.)
C6_DayIncrementPerPair ==
    \A i \in 1..Len(blocks) :
        ~OutOf(i).raised =>
            \A c \in 1..4 :
                LET event == Event(blocks[i])
                    start == JulianStart(event)
                    frac  == [s |-> start.jul_frac, u |-> 0]
                    n     == Len(event.counts[2 * c - 1])
                    line  == OutOf(i).print_out[c]
                IN  line # EmptyLine =>
                        line.jul_day =
                            IF \/ GreaterOne(TimeAdd(event.counts[2 * c - 1][n], frac))
                               \/ GreaterOne(TimeAdd(event.counts[2 * c][n], frac))
                            THEN start.jul_day + 1 ELSE start.jul_day

\* a fraction of a day in [0, 1)
InUnitInterval(t) == 0 <= t.s /\ t.s < DaySeconds

\* C7: every rise and fall fraction written in a record lies in [0, 1).
C7_FractionsInUnitInterval ==
    \A i \in 1..Len(blocks) :
        ~OutOf(i).raised =>
            \A c \in 1..4 :
                LET line == OutOf(i).print_out[c]
                IN  line # EmptyLine =>
                        InUnitInterval(line.t_rise) /\ InUnitInterval(line.t_fall)

\* the byte of the three sub-fields: bit 7, the valid bit 5, the count bits 0-4
ReEncode(tmc) ==
    128 * tmc.bit_7 + 32 * (IF tmc.edge_valid THEN 1 ELSE 0) + BinInt(tmc.edge_count)

\* C8 as stated: for every token 00..FF, re-encoding the three decoded
\* sub-fields gives the original byte.
C8_RoundTripEveryByte ==
    pc = "ret" => ReEncode(res) = HexInt(arg)

\* C8, amended: for every token whose bit 6 is 0, re-encoding the three
\* decoded sub-fields gives the original byte.
C8_RoundTripBit6Clear ==
    (pc = "ret" /\ (HexInt(arg) \div 64) % 2 = 0) => ReEncode(res) = HexInt(arg)

\* the token A5 (start bit, valid, count 5) decoded
C8_Witness ==
    /\ pc = "ret"
    /\ arg = <<10, 5>>
    /\ res.bit_7 = 1 /\ res.edge_valid /\ BinInt(res.edge_count) = 5

\* C9: the frequency is strictly positive: last - first when that is
\* positive, last - first + 0xFFFFFFFF when last < first, and the nominal
\* 25,000,000 when first = last or the corrected difference is zero.
C9_FrequencyPositive ==
    pc = "ret" =>
        LET first == HexWide(arg.first)
            last  == HexWide(arg.last)
            diff  == WSub(last, first)
            corr  == WAdd(diff, Rollover)
        IN  /\ ~WNeg(res) /\ ~WZero(res)
            /\ WLess(first, last) => res = diff
            /\ (WLess(last, first) /\ ~WZero(corr)) => (res = corr /\ ~WNeg(corr))
            /\ (first = last \/ (WLess(last, first) /\ WZero(corr)))
                   => res = WOfInt(NominalFreq)

\* a pps that wrapped (last < first) with the corrected difference as result
C9_Witness ==
    /\ pc = "ret"
    /\ WLess(HexWide(arg.last), HexWide(arg.first))
    /\ res = WAdd(WSub(HexWide(arg.last), HexWide(arg.first)), Rollover)
    /\ res # WOfInt(NominalFreq)

\* list `short` is list `long` without its last entry
IsAllButLast(short, long) ==
    /\ Len(short) = Len(long) - 1
    /\ \A k \in 1..Len(short) : short[k] = long[k]

\* C10: the orphan loop removes exactly the last entry of the longer list of
\* a channel whose lists differ in length and leaves the rest of that list,
\* the shorter list and the lists of the other channels as they were; a
\* channel of equal lengths loses nothing.
C10_TrimRemovesLastOfLonger ==
    \A i \in 1..Len(blocks) :
        Decodes(blocks[i]) =>
            LET pre  == PreTrim(blocks[i])
                post == Event(blocks[i]).counts
            IN  \A c \in 1..4 :
                    LET re == 2 * c - 1
                        fe == 2 * c
                    IN  /\ Len(pre[re]) = Len(pre[fe])
                            => (post[re] = pre[re] /\ post[fe] = pre[fe])
                        /\ Len(pre[re]) > Len(pre[fe])
                            => (IsAllButLast(post[re], pre[re]) /\ post[fe] = pre[fe])
                        /\ Len(pre[re]) < Len(pre[fe])
                            => (IsAllButLast(post[fe], pre[fe]) /\ post[re] = pre[re])

\* a block with a channel of two or more rising edges and fewer falling
\* ones, and a channel with more falling edges than rising ones
C10_Witness ==
    \E i \in 1..Len(blocks) :
        /\ Decodes(blocks[i])
        /\ \E c \in 1..4 : /\ Len(PreTrim(blocks[i])[2 * c - 1]) >= 2
                           /\ Len(PreTrim(blocks[i])[2 * c - 1]) > Len(PreTrim(blocks[i])[2 * c])
        /\ \E c \in 1..4 : Len(PreTrim(blocks[i])[2 * c - 1]) < Len(PreTrim(blocks[i])[2 * c])

============================================================================
